---- MODULE Spec2Model ----
(***************************************************************************)
(* Model of solveProblems (src/StudentSolution.cpp): the greedy per-hour   *)
(* water allocation over regions, canals and water sources.                *)
(*                                                                         *)
(* Quantities of water are fixed-point integers counted in thousandths of  *)
(* a cubic metre, so that kEpsilon = 1e-3 is the integer 1 and the margin  *)
(* kSafetyMargin = 0.10 is ten percent.  Every capacity of the model is a  *)
(* multiple of ten thousandths, so the buffer is exact.  The arithmetic of *)
(* the model is exact; rounding of doubles is not modelled.                *)
(***************************************************************************)
EXTENDS Integers, Sequences, FiniteSets, TLC

VARIABLES
    regions,        \* Seq of [waterLevel, waterNeed, waterCapacity]  (manager.getRegions())
    sources,        \* Seq of [waterLevel]                            (the WaterSource objects)
    canals,         \* Seq of [sourceRegion, destinationRegion, waterSource, isOpen, flowRate]
    hour,           \* manager.hour
    SimulationMax,  \* manager.SimulationMax
    solved,         \* the value the last call of manager.solved() returned
    pc,             \* position in solveProblems
    needs,          \* std::priority_queue<Need>: a set of [region, amount]
    donors,         \* std::vector<Region*> donors: Seq of region indices
    didTransfer,    \* bool didTransfer
    loops,          \* int loops
    curr,           \* Need curr: the need popped last ([region, amount])
    deficit,        \* double deficit
    di,             \* position of the range-for over donors (line 96)
    avail,          \* double avail
    ci,             \* position of the range-for over it->second (line 104)
    log,            \* history: the transfers executed, with the quantities read before each
    pops,           \* history: pops of the needs queue in the current hour
    attempts,       \* history: hours entered so far
    start,          \* history: the regions and sources as they were at the call
    hourStart       \* history: the regions and sources as they were when the hour began

vars == <<regions, sources, canals, hour, SimulationMax, solved, pc, needs, donors,
          didTransfer, loops, curr, deficit, di, avail, ci, log, pops, attempts, start,
          hourStart>>

----------------------------------------------------------------------------
(* Program constants, lines 27-29. *)

kEpsilon == 1
kSafetyMargin == 10
kMaxLoops == 1000

(* Bounds of the model. *)
MaxSimHours == 2

----------------------------------------------------------------------------
(* Helpers. *)

Max2(a, b) == IF a >= b THEN a ELSE b

RECURSIVE MinOf(_)
MinOf(s) == IF Len(s) = 1 THEN s[1]
            ELSE LET m == MinOf(Tail(s)) IN IF s[1] <= m THEN s[1] ELSE m

RECURSIVE SumSeq(_)
SumSeq(s) == IF s = <<>> THEN 0 ELSE s[1] + SumSeq(Tail(s))

(* double safeSurplus(const Region* r) *)
safeSurplus(r) ==
    LET extra == r.waterLevel - r.waterNeed
        buffer == (kSafetyMargin * r.waterCapacity) \div 100
    IN Max2(0, extra - buffer)

(* double getDeficit(const Region* r) *)
getDeficit(r) == Max2(0, r.waterNeed - r.waterLevel)

(* Need::operator< : larger deficits have higher priority *)
NeedLess(a, b) == a.amount < b.amount

(* needs.top(): an element no other element is greater than; the order among
   equal amounts is not fixed by the comparison. *)
IsAny(n, q) == n \in q
IsTop(n, q) == n \in q /\ \A o \in q : ~NeedLess(n, o)

(* canalMap[src][dst]: the canals from src to dst, in the order of getCanals() *)
RECURSIVE Indices(_, _)
Indices(cs, k) ==
    IF k > Len(cs) THEN <<>> ELSE <<k>> \o Indices(cs, k + 1)

canalMap(s, t) ==
    SelectSeq(Indices(canals, 1),
              LAMBDA c : canals[c].sourceRegion = s /\ canals[c].destinationRegion = t)

(* canal->setFlowRate(xfer / 3600.0): the rate as a fraction *)
RateRaw(x) == [num |-> x, den |-> 1]
Rate(x) == [num |-> x, den |-> 3600]
ZeroRate == [num |-> 0, den |-> 1]

(* updateWaterLevel(change) of Region and of WaterSource *)
updateWaterLevel(l, change) == l + change

----------------------------------------------------------------------------
(* The inputs: regions, water sources and canals as the driver sets them up
   before solveProblems is called.  Amounts are in thousandths. *)

Region(l, n, c) == [waterLevel |-> l, waterNeed |-> n, waterCapacity |-> c]
Canal(s, t, w) == [sourceRegion |-> s, destinationRegion |-> t, waterSource |-> w,
                   isOpen |-> FALSE, flowRate |-> ZeroRate]
NoSource == 0

(* Region profiles. *)
Donor7 == Region(20000, 10000, 30000)      \* safe surplus 7
Donor8 == Region(21000, 10000, 30000)      \* safe surplus 8
Donor9 == Region(10000, 0, 10000)          \* safe surplus 9, full, needs nothing
Donor3 == Region(15000, 10000, 20000)      \* safe surplus 3
Needy8 == Region(2000, 10000, 20000)       \* deficit 8
Needy10 == Region(0, 10000, 20000)         \* deficit 10
Needy20 == Region(0, 20000, 20000)         \* deficit 20
Needy5 == Region(5000, 10000, 20000)       \* deficit 5
Cramped == Region(15000, 20000, 18000)     \* deficit 5, headroom 3
Almost == Region(9999, 10000, 20000)       \* deficit 0.001 = kEpsilon

Source(w) == [waterLevel |-> w]
Setup(rs, ss, cs) == [regions |-> rs, sources |-> ss, canals |-> cs]

(* One donor and one other region, one water source; one canal, two canals
   side by side, or a canal without a water source before a usable one. *)
PairSetups ==
    { Setup(<<Donor7, b>>, <<Source(w)>>, cs) :
        b \in {Needy8, Needy10, Cramped, Almost},
        w \in {3000, 100000},
        cs \in { <<Canal(1, 2, 1)>>,
                 <<Canal(1, 2, 1), Canal(1, 2, 1)>>,
                 <<Canal(1, 2, NoSource), Canal(1, 2, 1)>> } }

(* A full donor that needs nothing itself. *)
FullDonorSetups ==
    { Setup(<<Donor9, b>>, <<Source(100000)>>, cs) :
        b \in {Needy8, Needy20},
        cs \in { <<Canal(1, 2, 1)>>,
                 <<Canal(1, 2, 1), Canal(1, 2, 1)>> } }

(* One donor and two other regions, two water sources; the second region is
   in need or just not in need. *)
TripleSetups ==
    { Setup(<<Donor8, b, Needy5>>, <<Source(w), Source(100000)>>, cs) :
        b \in {Needy8, Needy10, Almost},
        w \in {3000, 100000},
        cs \in { <<Canal(1, 2, 1), Canal(1, 3, 1)>>,
                 <<Canal(1, 2, 1), Canal(1, 3, 2)>>,
                 <<Canal(1, 3, 2)>> } }

(* Two donors and one region in need, two water sources. *)
TwoDonorSetups ==
    { Setup(<<Donor3, b, Donor7>>, <<Source(w), Source(100000)>>,
            <<Canal(3, 2, 2), Canal(1, 2, 1), Canal(3, 2, 1)>>) :
        b \in {Needy10, Needy20},
        w \in {3000, 100000} }

Setups == PairSetups \cup FullDonorSetups \cup TripleSetups \cup TwoDonorSetups

Init ==
    /\ \E s \in Setups :
          /\ regions = s.regions
          /\ sources = s.sources
          /\ canals = s.canals
    /\ hour = 0
    /\ SimulationMax \in 1..MaxSimHours
    /\ solved = FALSE
    /\ pc = "while"
    /\ needs = {}
    /\ donors = <<>>
    /\ didTransfer = FALSE
    /\ loops = 0
    /\ curr = [region |-> 0, amount |-> 0]
    /\ deficit = 0
    /\ di = 0
    /\ avail = 0
    /\ ci = 0
    /\ log = <<>>
    /\ pops = 0
    /\ attempts = 0
    /\ start = [regions |-> regions, sources |-> sources]
    /\ hourStart = start

----------------------------------------------------------------------------
(* solveProblems, one action per step. *)

(* line 63: while (!manager.solved() && manager.hour < maxHours), for the
   answer s of solved().  solved() is the driver's predicate; the model lets
   it answer either way. *)
WhileCondNoBudget(s) == ~s
WhileCond(s) == ~s /\ hour < SimulationMax

WhileEnter ==
    /\ pc = "while"
    /\ \E s \in BOOLEAN :
          /\ solved' = s
          /\ WhileCond(s)
    /\ attempts' = attempts + 1
    /\ pc' = "reset"
    /\ UNCHANGED <<regions, sources, canals, hour, SimulationMax, needs, donors,
                   didTransfer, loops, curr, deficit, di, avail, ci, log, pops, start,
                   hourStart>>

WhileExit ==
    /\ pc = "while"
    /\ \E s \in BOOLEAN :
          /\ solved' = s
          /\ ~WhileCond(s)
    /\ pc' = "done"
    /\ UNCHANGED <<regions, sources, canals, hour, SimulationMax, needs, donors,
                   didTransfer, loops, curr, deficit, di, avail, ci, log, pops,
                   attempts, start,
                   hourStart>>

(* lines 66-70: reset all canals *)
ResetCanalsKeepRate ==
    /\ pc = "reset"
    /\ canals' = [c \in DOMAIN canals |->
                    [canals[c] EXCEPT !.isOpen = FALSE]]
    /\ hourStart' = [regions |-> regions, sources |-> sources]
    /\ pc' = "partition"
    /\ UNCHANGED <<regions, sources, hour, SimulationMax, solved, needs, donors,
                   didTransfer, loops, curr, deficit, di, avail, ci, log, pops, attempts, start>>

ResetCanalsSkipped ==
    /\ pc = "reset"
    /\ canals' = canals
    /\ hourStart' = [regions |-> regions, sources |-> sources]
    /\ pc' = "partition"
    /\ UNCHANGED <<regions, sources, hour, SimulationMax, solved, needs, donors,
                   didTransfer, loops, curr, deficit, di, avail, ci, log, pops, attempts, start>>

ResetCanals ==
    /\ pc = "reset"
    /\ canals' = [c \in DOMAIN canals |->
                    [canals[c] EXCEPT !.isOpen = FALSE, !.flowRate = ZeroRate]]
    /\ hourStart' = [regions |-> regions, sources |-> sources]
    /\ pc' = "partition"
    /\ UNCHANGED <<regions, sources, hour, SimulationMax, solved, needs, donors,
                   didTransfer, loops, curr, deficit, di, avail, ci, log, pops, attempts, start>>

(* lines 72-86: gather the needy regions and the donors *)
IsNeedyInclusive(r) == getDeficit(r) >= kEpsilon
IsNeedy(r) == getDeficit(r) > kEpsilon
IsDonor(r) == ~IsNeedy(r) /\ safeSurplus(r) > kEpsilon

Partition ==
    /\ pc = "partition"
    /\ needs' = { [region |-> r, amount |-> getDeficit(regions[r])] :
                    r \in { x \in DOMAIN regions : IsNeedy(regions[x]) } }
    /\ donors' = SelectSeq(Indices(regions, 1), LAMBDA r : IsDonor(regions[r]))
    /\ didTransfer' = FALSE
    /\ loops' = 0
    /\ pops' = 0
    /\ pc' = "inner"
    /\ UNCHANGED <<regions, sources, canals, hour, SimulationMax, solved,
                   curr, deficit, di, avail, ci, log, attempts, start,
                   hourStart>>

(* line 89: while (!needs.empty() && !donors.empty() && loops++ < kMaxLoops) *)
InnerGuardOffByOne == needs # {} /\ donors # <<>> /\ loops <= kMaxLoops
InnerGuard == needs # {} /\ donors # <<>> /\ loops < kMaxLoops

(* lines 89-93: the test holds; pop the top need *)
PopNeed ==
    /\ pc = "inner"
    /\ InnerGuard
    /\ loops' = loops + 1
    /\ pops' = pops + 1
    /\ \E top \in needs :
          /\ IsTop(top, needs)
          /\ curr' = top
          /\ needs' = needs \ {top}
          /\ deficit' = top.amount
    /\ di' = 1
    /\ pc' = "donor"
    /\ UNCHANGED <<regions, sources, canals, hour, SimulationMax, solved, donors,
                   didTransfer, avail, ci, log, attempts, start,
                   hourStart>>

(* line 89: the test fails; loops++ is evaluated only when both queues are
   non-empty *)
InnerExit ==
    /\ pc = "inner"
    /\ ~InnerGuard
    /\ loops' = IF needs # {} /\ donors # <<>> THEN loops + 1 ELSE loops
    /\ pc' = "hourEnd"
    /\ UNCHANGED <<regions, sources, canals, hour, SimulationMax, solved, needs, donors,
                   didTransfer, curr, deficit, di, avail, ci, log, pops, attempts, start,
                   hourStart>>

(* line 92: Region* target = curr.region *)
target == curr.region

(* lines 96-102: the next donor; skipped when it has nothing to give or no
   canal to the target *)
DonorSkip ==
    /\ pc = "donor"
    /\ di <= Len(donors)
    /\ avail' = safeSurplus(regions[donors[di]])
    /\ avail' <= kEpsilon \/ canalMap(donors[di], target) = <<>>
    /\ di' = di + 1
    /\ UNCHANGED <<regions, sources, canals, hour, SimulationMax, solved, pc, needs,
                   donors, didTransfer, loops, curr, deficit, ci, log, pops, attempts, start,
                   hourStart>>

DonorEnter ==
    /\ pc = "donor"
    /\ di <= Len(donors)
    /\ avail' = safeSurplus(regions[donors[di]])
    /\ ~(avail' <= kEpsilon)
    /\ canalMap(donors[di], target) # <<>>
    /\ ci' = 1
    /\ pc' = "canal"
    /\ UNCHANGED <<regions, sources, canals, hour, SimulationMax, solved, needs,
                   donors, didTransfer, loops, curr, deficit, di, log, pops, attempts, start,
                   hourStart>>

(* lines 104-111, for the canal the inner range-for stands at *)
CurCanal == canalMap(donors[di], target)[ci]
CurSource == canals[CurCanal].waterSource
Space == regions[target].waterCapacity - regions[target].waterLevel
XferIgnoringSource == MinOf(<<deficit, avail, Space>>)
XferIgnoringSpace == MinOf(<<deficit, avail, sources[CurSource].waterLevel>>)
Xfer == MinOf(<<deficit, avail, sources[CurSource].waterLevel, Space>>)
Eligible ==
    /\ CurSource # NoSource
    /\ ~(sources[CurSource].waterLevel <= kEpsilon)
    /\ ~(Xfer <= kEpsilon)

CanalSkipBreaks ==
    /\ pc = "canal"
    /\ ci <= Len(canalMap(donors[di], target))
    /\ ~Eligible
    /\ ci' = ci
    /\ pc' = "requeue"
    /\ UNCHANGED <<regions, sources, canals, hour, SimulationMax, solved, needs,
                   donors, didTransfer, loops, curr, deficit, di, avail, log, pops, attempts, start,
                   hourStart>>

CanalSkip ==
    /\ pc = "canal"
    /\ ci <= Len(canalMap(donors[di], target))
    /\ ~Eligible
    /\ ci' = ci + 1
    /\ UNCHANGED <<regions, sources, canals, hour, SimulationMax, solved, pc, needs,
                   donors, didTransfer, loops, curr, deficit, di, avail, log, pops, attempts, start,
                   hourStart>>

(* line 116: ws->updateWaterLevel(-xfer) *)
SourcesKept(ws, xfer) == sources
SourcesAfter(ws, xfer) ==
    [sources EXCEPT ![ws].waterLevel = updateWaterLevel(@, -xfer)]

(* lines 117-118: src->updateWaterLevel(-xfer); target->updateWaterLevel(xfer) *)
RegionsAfterDonorKept(src, tgt, xfer) ==
    [regions EXCEPT ![tgt].waterLevel = updateWaterLevel(@, xfer)]
RegionsAfter(src, tgt, xfer) ==
    [regions EXCEPT ![src].waterLevel = updateWaterLevel(@, -xfer),
                    ![tgt].waterLevel = updateWaterLevel(@, xfer)]

(* lines 113-122: execute the transfer *)
Transfer ==
    /\ pc = "canal"
    /\ ci <= Len(canalMap(donors[di], target))
    /\ Eligible
    /\ LET xfer == Xfer
           c == CurCanal
           ws == CurSource
           src == donors[di]
       IN /\ canals' = [canals EXCEPT ![c].isOpen = TRUE, ![c].flowRate = Rate(xfer)]
          /\ sources' = SourcesAfter(ws, xfer)
          /\ regions' = RegionsAfter(src, target, xfer)
          /\ deficit' = deficit - xfer
          /\ didTransfer' = TRUE
          /\ log' = Append(log, [hour |-> hour, canal |-> c, donor |-> src,
                                 target |-> target, amount |-> xfer,
                                 deficit |-> deficit,
                                 surplus |-> safeSurplus(regions[src]),
                                 source |-> sources[ws].waterLevel,
                                 space |-> Space])
          /\ IF deficit' <= kEpsilon
                THEN pc' = "requeue" /\ ci' = ci
                ELSE pc' = pc /\ ci' = ci + 1
    /\ UNCHANGED <<hour, SimulationMax, solved, needs, donors, loops, curr,
                   di, avail, pops, attempts, start,
                   hourStart>>

(* lines 104 and 124: the canals of this donor are exhausted *)
CanalsDone ==
    /\ pc = "canal"
    /\ ci > Len(canalMap(donors[di], target))
    /\ IF deficit <= kEpsilon
          THEN pc' = "requeue" /\ di' = di
          ELSE pc' = "donor" /\ di' = di + 1
    /\ UNCHANGED <<regions, sources, canals, hour, SimulationMax, solved, needs,
                   donors, didTransfer, loops, curr, deficit, avail, ci, log, pops, attempts, start,
                   hourStart>>

(* lines 96 and 127-130: the scan of the donors has ended (by exhaustion or by
   break); requeue the need if it is still unmet *)
RequeueOriginalAmount ==
    /\ pc = "requeue" \/ (pc = "donor" /\ di > Len(donors))
    /\ needs' = IF deficit > kEpsilon
                   THEN needs \cup {[region |-> target, amount |-> curr.amount]}
                   ELSE needs
    /\ pc' = "inner"
    /\ UNCHANGED <<regions, sources, canals, hour, SimulationMax, solved, donors,
                   didTransfer, loops, curr, deficit, di, avail, ci, log, pops, attempts, start,
                   hourStart>>

Requeue ==
    /\ pc = "requeue" \/ (pc = "donor" /\ di > Len(donors))
    /\ needs' = IF deficit > kEpsilon
                   THEN needs \cup {[region |-> target, amount |-> deficit]}
                   ELSE needs
    /\ pc' = "inner"
    /\ UNCHANGED <<regions, sources, canals, hour, SimulationMax, solved, donors,
                   didTransfer, loops, curr, deficit, di, avail, ci, log, pops, attempts, start,
                   hourStart>>

(* line 134: if (!didTransfer) break; *)
BailOutAlways ==
    /\ pc = "hourEnd"
    /\ pc' = "done"
    /\ UNCHANGED <<regions, sources, canals, hour, SimulationMax, solved, needs, donors,
                   didTransfer, loops, curr, deficit, di, avail, ci, log, pops,
                   attempts, start,
                   hourStart>>

BailOut ==
    /\ pc = "hourEnd"
    /\ ~didTransfer
    /\ pc' = "done"
    /\ UNCHANGED <<regions, sources, canals, hour, SimulationMax, solved, needs, donors,
                   didTransfer, loops, curr, deficit, di, avail, ci, log, pops, attempts, start,
                   hourStart>>

(* line 136: manager.nexthour() *)
nexthour(h) == h + 1

NextHourUnguarded ==
    /\ pc = "hourEnd"
    /\ hour' = nexthour(hour)
    /\ pc' = "while"
    /\ UNCHANGED <<regions, sources, canals, SimulationMax, solved, needs, donors,
                   didTransfer, loops, curr, deficit, di, avail, ci, log, pops,
                   attempts, start,
                   hourStart>>

NextHour ==
    /\ pc = "hourEnd"
    /\ didTransfer
    /\ hour' = nexthour(hour)
    /\ pc' = "while"
    /\ UNCHANGED <<regions, sources, canals, SimulationMax, solved, needs, donors,
                   didTransfer, loops, curr, deficit, di, avail, ci, log, pops, attempts, start,
                   hourStart>>

Next ==
    \/ WhileEnter
    \/ WhileExit
    \/ ResetCanals
    \/ Partition
    \/ PopNeed
    \/ InnerExit
    \/ DonorSkip
    \/ DonorEnter
    \/ CanalSkip
    \/ Transfer
    \/ CanalsDone
    \/ Requeue
    \/ BailOut
    \/ NextHour

Spec == Init /\ [][Next]_vars

(* solveProblems is one sequential call: it runs until it returns. *)
FairSpec == Spec /\ WF_vars(Next)

----------------------------------------------------------------------------
(* Vocabulary of the properties. *)

(* The donor list and the needs queue are those of the hour in progress. *)
InHour == pc \in {"inner", "donor", "canal", "requeue", "hourEnd"}

DonorSet == { donors[i] : i \in DOMAIN donors }

(* The transfers executed in hour h. *)
HourLog(h) == SelectSeq(log, LAMBDA e : e.hour = h)

(* need + marginFraction * capacity <= level, in hundredths of a thousandth *)
KeepsBuffer(r) ==
    100 * r.waterLevel >= 100 * r.waterNeed + kSafetyMargin * r.waterCapacity

(* Canal c could still move water to region t from a donor of this hour. *)
ServableBy(t, c) ==
    /\ canals[c].destinationRegion = t
    /\ canals[c].sourceRegion \in DonorSet
    /\ safeSurplus(regions[canals[c].sourceRegion]) > kEpsilon
    /\ canals[c].waterSource # NoSource
    /\ sources[canals[c].waterSource].waterLevel > kEpsilon
    /\ regions[t].waterCapacity - regions[t].waterLevel > kEpsilon

----------------------------------------------------------------------------
(* C1: every region keeps 0 <= level <= capacity after every transfer, in
   every hour and for every topology, given that it held at the start. *)
C1_LevelsWithinCapacity ==
    \A r \in DOMAIN regions :
        /\ 0 <= regions[r].waterLevel
        /\ regions[r].waterLevel <= regions[r].waterCapacity

(* C2: after every transfer of an hour each donor of that hour still holds
   at least need + marginFraction * capacity. *)
C2_DonorsKeepBuffer ==
    InHour => \A d \in DonorSet : KeepsBuffer(regions[d])

(* C3: the amount of every executed transfer is the minimum of the target's
   remaining deficit, the donor's safe surplus, the source's level and the
   target's headroom, all as they stood immediately before the transfer. *)
C3_AmountIsMinimum ==
    \A i \in DOMAIN log :
        log[i].amount =
            MinOf(<<log[i].deficit, log[i].surplus, log[i].source, log[i].space>>)

(* C4: when the transfer loop of an hour ends, no need that is still unmet
   could be served: there is no queued need with deficit > epsilon and canal
   from a donor with safe surplus > epsilon whose source is present with
   level > epsilon, into a target with headroom > epsilon. *)
C4_NoServableNeedLeft ==
    pc = "hourEnd" =>
        \A n \in needs :
            getDeficit(regions[n.region]) > kEpsilon =>
                \A c \in DOMAIN canals : ~ServableBy(n.region, c)

(* C5: the level of every water source is >= 0 after every transfer, also
   when one source feeds several canals used in the same hour. *)
C5_SourcesNonNegative ==
    \A w \in DOMAIN sources : sources[w].waterLevel >= 0

(* Two canals fed by the same source both carried water in one hour. *)
C5_SharedSourceUsedTwice ==
    \E i, j \in DOMAIN log :
        /\ i < j
        /\ log[i].hour = log[j].hour
        /\ log[i].canal # log[j].canal
        /\ canals[log[i].canal].waterSource = canals[log[j].canal].waterSource

(* C6: a transfer of amount a lowers the donor by a, raises the target by a,
   lowers the canal's source by a and changes no other level; no other step
   changes a level; so the region levels always sum to their initial sum and
   the source levels to their initial sum less the total transferred. *)
Levels(seq) == [i \in DOMAIN seq |-> seq[i].waterLevel]
Amounts(seq) == [i \in DOMAIN seq |-> seq[i].amount]

TransferEffect(e) ==
    /\ e.donor # e.target
    /\ \A r \in DOMAIN regions :
          regions'[r].waterLevel =
              regions[r].waterLevel
                  + (IF r = e.target THEN e.amount ELSE 0)
                  - (IF r = e.donor THEN e.amount ELSE 0)
    /\ \A w \in DOMAIN sources :
          sources'[w].waterLevel =
              sources[w].waterLevel
                  - (IF w = canals[e.canal].waterSource THEN e.amount ELSE 0)

C6_Conservation ==
    /\ [](SumSeq(Levels(regions)) = SumSeq(Levels(start.regions)))
    /\ [](SumSeq(Levels(sources)) =
             SumSeq(Levels(start.sources)) - SumSeq(Amounts(log)))
    /\ [][IF log' # log
             THEN Len(log') = Len(log) + 1 /\ TransferEffect(log'[Len(log')])
             ELSE regions' = regions /\ sources' = sources]_vars

(* Water has been moved in two different hours. *)
C6_TransfersInTwoHours ==
    \E i, j \in DOMAIN log : log[i].hour # log[j].hour

(* C7: the transfer loop of every hour halts, after at most kMaxLoops pops of
   the needs queue. *)
C7_Phase3Halts ==
    /\ [](pops <= kMaxLoops)
    /\ (pc = "inner") ~> (pc = "hourEnd")

(* The loop ran to the cap with a need requeued on every pop and no water
   moved. *)
C7_CapReached ==
    /\ pc = "hourEnd"
    /\ pops = kMaxLoops
    /\ needs # {}
    /\ HourLog(hour) = <<>>

(* C8: the hour counter advances by one at the end of an hour that moved
   water, and at no other step; an hour that moved no water ends the run
   without advancing the counter, and nothing runs after the end. *)
C8_HourAdvance ==
    /\ [][/\ pc = "hourEnd" /\ HourLog(hour) # <<>> =>
                hour' = hour + 1 /\ pc' = "while"
          /\ pc = "hourEnd" /\ HourLog(hour) = <<>> =>
                hour' = hour /\ pc' = "done"
          /\ pc # "hourEnd" => hour' = hour]_vars
    /\ [](pc = "done" => ~ENABLED Next)

(* The run has ended on an hour without transfers that followed an hour with
   transfers. *)
C8_StoppedAfterIdleHour ==
    /\ pc = "done"
    /\ hour = 1
    /\ attempts = 2
    /\ HourLog(0) # <<>>
    /\ HourLog(1) = <<>>
    /\ ~solved

(* C9: the run terminates; it runs at most SimulationMax hours that move
   water (the counter starts at 0) and at most one that does not; and when it
   returns, solved() answered true, or the hour counter has reached
   SimulationMax, or the last hour entered moved no water. *)
ProductiveHours == Cardinality({ log[i].hour : i \in DOMAIN log })

C9_RunTerminates ==
    /\ <>(pc = "done")
    /\ [](ProductiveHours <= SimulationMax)
    /\ [](attempts - ProductiveHours <= 1)
    /\ [](pc = "done" =>
            \/ solved
            \/ hour >= SimulationMax
            \/ attempts > ProductiveHours)

(* The run has returned because the budget of hours is used up. *)
C9_BudgetExhausted ==
    /\ pc = "done"
    /\ ~solved
    /\ hour = SimulationMax
    /\ ProductiveHours = SimulationMax
    /\ attempts = SimulationMax

(* C10: the need popped in an iteration is maximal among the needs then in
   the queue, so water is given only to a region no queued need exceeds; with
   needs of 10 and 5 and one donor of safe surplus 8 connected to both, the
   first receives 8 and the second nothing in that hour. *)
Received(t, h) ==
    SumSeq(Amounts(SelectSeq(log, LAMBDA e : e.hour = h /\ e.target = t)))

GreedyExample ==
    /\ start.regions = <<Donor8, Needy10, Needy5>>
    /\ \A w \in DOMAIN start.sources : start.sources[w].waterLevel >= 20000
    /\ \E c \in DOMAIN canals :
          canals[c].sourceRegion = 1 /\ canals[c].destinationRegion = 2
    /\ \E c \in DOMAIN canals :
          canals[c].sourceRegion = 1 /\ canals[c].destinationRegion = 3
    /\ \A c \in DOMAIN canals : canals[c].waterSource # NoSource

C10_GreedyPriority ==
    /\ [](pc \in {"donor", "canal", "requeue"} =>
            \A n \in needs : n.amount <= curr.amount)
    /\ [][log' # log =>
            /\ log'[Len(log')].target = curr.region
            /\ \A n \in needs : n.amount <= curr.amount]_vars
    /\ [](GreedyExample /\ pc = "hourEnd" /\ hour = 0 =>
            Received(2, 0) = 8000 /\ Received(3, 0) = 0)

(* The example hour has ended with 8 given to the larger need. *)
C10_ExampleServed ==
    /\ GreedyExample
    /\ pc = "hourEnd"
    /\ hour = 0
    /\ regions[2].waterLevel = 8000
    /\ regions[3].waterLevel = 5000

(* C11: within one hour no canal carries more than one transfer, also when
   the need of its target is requeued, popped again and the canals are
   scanned again. *)
CarriedIn(c, h) == { i \in DOMAIN log : log[i].hour = h /\ log[i].canal = c }

C11_OncePerHour ==
    \A i, j \in DOMAIN log :
        log[i].hour = log[j].hour /\ log[i].canal = log[j].canal => i = j

(* The scan stands again at a canal that already carried water this hour,
   for a need that was requeued and popped again. *)
C11_CanalScannedAgain ==
    /\ pc = "canal"
    /\ pops >= 2
    /\ ci <= Len(canalMap(donors[di], target))
    /\ CarriedIn(CurCanal, hour) # {}
    /\ deficit > kEpsilon

(* C12: if no region has a deficit above epsilon when an hour begins, the
   hour moves no water and leaves every region level and source level as it
   was; all it does is close every canal and set its flow rate to 0. *)
QuietHour ==
    \A r \in DOMAIN hourStart.regions :
        hourStart.regions[r].waterNeed - hourStart.regions[r].waterLevel <= kEpsilon

AllCanalsShut ==
    \A c \in DOMAIN canals :
        ~canals[c].isOpen /\ canals[c].flowRate = [num |-> 0, den |-> 1]

(* The hour entered last is under way or has ended the run. *)
HourEntered == InHour \/ (pc = "done" /\ attempts > 0)

C12_NoOpHour ==
    HourEntered /\ QuietHour =>
        /\ HourLog(hour) = <<>>
        /\ ~didTransfer
        /\ regions = hourStart.regions
        /\ sources = hourStart.sources
        /\ AllCanalsShut

(* An hour without deficits has ended the run; the hour before it had opened
   a canal, and a donor was at hand. *)
C12_QuietHourAfterTransfers ==
    /\ pc = "done"
    /\ attempts = 2
    /\ QuietHour
    /\ HourLog(0) # <<>>
    /\ donors # <<>>

(* C13: an hour that begins with exactly one region in need, one donor and
   one canal between them with a water source performs exactly one transfer,
   of m = min(deficit, safe surplus, source level, headroom) when m exceeds
   epsilon; at the end of the hour the donor and the source are down by m,
   the region in need is up by m and the canal is open with flow rate m/3600.
   For a donor (20, 10, 30), a region (2, 10, 20) and a source of 100 this
   gives m = 7, levels 13 and 9, source 93 and rate 7/3600. *)
SinglePair(a, b) ==
    /\ { r \in DOMAIN hourStart.regions :
           hourStart.regions[r].waterNeed - hourStart.regions[r].waterLevel
               > kEpsilon } = {b}
    /\ { r \in DOMAIN hourStart.regions :
           /\ getDeficit(hourStart.regions[r]) <= kEpsilon
           /\ safeSurplus(hourStart.regions[r]) > kEpsilon } = {a}
    /\ Len(canals) = 1
    /\ canals[1].sourceRegion = a
    /\ canals[1].destinationRegion = b
    /\ canals[1].waterSource # NoSource

PairAmount(a, b) ==
    MinOf(<<getDeficit(hourStart.regions[b]),
            safeSurplus(hourStart.regions[a]),
            hourStart.sources[canals[1].waterSource].waterLevel,
            hourStart.regions[b].waterCapacity - hourStart.regions[b].waterLevel>>)

PairExample ==
    /\ hourStart.regions = <<[waterLevel |-> 20000, waterNeed |-> 10000,
                              waterCapacity |-> 30000],
                             [waterLevel |-> 2000, waterNeed |-> 10000,
                              waterCapacity |-> 20000]>>
    /\ hourStart.sources = <<[waterLevel |-> 100000]>>
    /\ Len(canals) = 1
    /\ canals[1].sourceRegion = 1
    /\ canals[1].destinationRegion = 2
    /\ canals[1].waterSource = 1

C13_SinglePairHour ==
    pc = "hourEnd" =>
        /\ \A a, b \in DOMAIN regions :
              SinglePair(a, b) /\ PairAmount(a, b) > kEpsilon =>
                  LET m == PairAmount(a, b)
                      ws == canals[1].waterSource
                  IN /\ Len(HourLog(hour)) = 1
                     /\ HourLog(hour)[1].amount = m
                     /\ HourLog(hour)[1].canal = 1
                     /\ regions[a].waterLevel = hourStart.regions[a].waterLevel - m
                     /\ regions[b].waterLevel = hourStart.regions[b].waterLevel + m
                     /\ sources[ws].waterLevel = hourStart.sources[ws].waterLevel - m
                     /\ canals[1].isOpen
                     /\ canals[1].flowRate = [num |-> m, den |-> 3600]
        /\ PairExample =>
              /\ Len(HourLog(hour)) = 1
              /\ HourLog(hour)[1].amount = 7000
              /\ regions[1].waterLevel = 13000
              /\ regions[2].waterLevel = 9000
              /\ sources[1].waterLevel = 93000
              /\ canals[1].isOpen
              /\ canals[1].flowRate = [num |-> 7000, den |-> 3600]

(* The hour of the example has ended. *)
C13_PairExampleEnded ==
    /\ pc = "hourEnd"
    /\ PairExample
    /\ SinglePair(1, 2)
    /\ PairAmount(1, 2) = 7000
    /\ didTransfer

(* C14: throughout the inner loop the deficit kept for a region in need, in
   the queue or while it is served, equals need - level of that region; a
   need served in part is requeued with exactly what it still lacks, and a
   transfer never lifts its target above its need.  With a donor (20, 10, 30),
   a region (2, 10, 20) and one canal whose source holds 3, the hour's only
   transfer is 3: the region ends at 5 with 5 still queued, the source at 0. *)
Shortfall(r) == regions[r].waterNeed - regions[r].waterLevel

ExhaustedSourceExample ==
    /\ start.regions = <<[waterLevel |-> 20000, waterNeed |-> 10000,
                          waterCapacity |-> 30000],
                         [waterLevel |-> 2000, waterNeed |-> 10000,
                          waterCapacity |-> 20000]>>
    /\ start.sources = <<[waterLevel |-> 3000]>>
    /\ Len(canals) = 1
    /\ canals[1].sourceRegion = 1
    /\ canals[1].destinationRegion = 2
    /\ canals[1].waterSource = 1

RequeuedExactly ==
    pc \in {"donor", "requeue"} =>
        \A n \in needs' \ needs :
            n.region = target /\ n.amount = Shortfall(target) /\ n.amount > kEpsilon

C14_TrackedDeficit ==
    /\ [](InHour => \A n \in needs : n.amount = Shortfall(n.region))
    /\ [](pc \in {"donor", "canal", "requeue"} => deficit = Shortfall(target))
    /\ [][RequeuedExactly]_vars
    /\ [][\A r \in DOMAIN regions :
             regions'[r].waterLevel > regions[r].waterLevel =>
                 regions'[r].waterLevel <= regions'[r].waterNeed]_vars
    /\ [](ExhaustedSourceExample /\ hour = 0 /\ pc = "hourEnd" =>
             /\ Len(HourLog(0)) = 1
             /\ HourLog(0)[1].amount = 3000
             /\ regions[2].waterLevel = 5000
             /\ needs = {[region |-> 2, amount |-> 5000]}
             /\ sources[1].waterLevel = 0)

(* The need of the example has been served in part and requeued, and the hour
   has run to its end. *)
C14_PartlyServedRequeued ==
    /\ ExhaustedSourceExample
    /\ hour = 0
    /\ pc = "hourEnd"
    /\ pops > 1
    /\ needs = {[region |-> 2, amount |-> 5000]}
    /\ log # <<>>

(* C15: while an hour is under way and when it has ended, a canal is open
   exactly if it carried a transfer in that hour, and its flow rate is then
   that transfer's amount over 3600; every other canal is closed with flow
   rate 0, whatever the hour before left behind. *)
HourUnderWay == pc = "partition" \/ InHour

C15_NoStaleFlow ==
    HourUnderWay =>
        \A c \in DOMAIN canals :
            IF CarriedIn(c, hour) # {}
               THEN /\ canals[c].isOpen
                    /\ \A i \in CarriedIn(c, hour) :
                          canals[c].flowRate = [num |-> log[i].amount, den |-> 3600]
               ELSE /\ ~canals[c].isOpen
                    /\ canals[c].flowRate = [num |-> 0, den |-> 1]

(* In the second hour a canal that carried water in the first hour is closed
   while another canal carries water. *)
C15_ClosedAfterCarrying ==
    /\ InHour
    /\ hour = 1
    /\ \E c \in DOMAIN canals :
          /\ CarriedIn(c, 0) # {}
          /\ CarriedIn(c, 1) = {}
          /\ ~canals[c].isOpen
    /\ \E c \in DOMAIN canals : CarriedIn(c, 1) # {}

(* C16: a canal whose water source is absent or holds no more than epsilon
   is never opened, never gets a flow rate other than 0 and moves no water,
   and a donor without a canal to the target changes nothing; in each case
   the scan goes on with the next canal or donor.  A region's level rises
   only by a transfer over a canal that ends at that region and starts at a
   donor of the hour. *)
DrySource(c) ==
    \/ canals[c].waterSource = NoSource
    \/ sources[canals[c].waterSource].waterLevel <= kEpsilon

NothingMoved ==
    regions' = regions /\ sources' = sources /\ canals' = canals /\ log' = log

(* the scan stands at a canal without usable source *)
DryCanalPassed ==
    pc = "canal" /\ ci <= Len(canalMap(donors[di], target)) /\ DrySource(CurCanal) =>
        NothingMoved /\ pc' = "canal" /\ ci' = ci + 1 /\ di' = di

(* the scan stands at a donor without a canal to the target *)
UnconnectedDonorPassed ==
    pc = "donor" /\ di <= Len(donors) /\ canalMap(donors[di], target) = <<>> =>
        NothingMoved /\ pc' = "donor" /\ di' = di + 1

DryCanalUntouched ==
    \A c \in DOMAIN canals : DrySource(c) => canals'[c] = canals[c]

RisesOnlyByTransfer ==
    \A r \in DOMAIN regions :
        regions'[r].waterLevel > regions[r].waterLevel =>
            /\ Len(log') = Len(log) + 1
            /\ LET e == log'[Len(log')]
               IN /\ canals[e.canal].destinationRegion = r
                  /\ canals[e.canal].sourceRegion \in DonorSet
                  /\ canals'[e.canal].isOpen

C16_SkippedSilently ==
    /\ [](\A c \in DOMAIN canals :
             canals[c].waterSource = NoSource =>
                 ~canals[c].isOpen /\ canals[c].flowRate = [num |-> 0, den |-> 1])
    /\ [](\A i \in DOMAIN log :
             /\ canals[log[i].canal].waterSource # NoSource
             /\ log[i].source > kEpsilon)
    /\ [][pc # "reset" => DryCanalUntouched]_vars
    /\ [][DryCanalPassed]_vars
    /\ [][UnconnectedDonorPassed]_vars
    /\ [][RisesOnlyByTransfer]_vars

(* A canal without water source was passed and the canal after it carried
   the water. *)
C16_PassedDryCanal ==
    /\ pc = "canal"
    /\ ci > Len(canalMap(donors[di], target))
    /\ canals[1].waterSource = NoSource
    /\ canals[1].destinationRegion = target
    /\ ~canals[1].isOpen
    /\ canals[2].isOpen
    /\ CarriedIn(2, hour) # {}

(* C17: the partition queues a region exactly if its deficit exceeds epsilon
   and lists it as donor exactly if its deficit is at most epsilon and its
   safe surplus exceeds epsilon, so no region is both; during the hour no
   region both gives and receives, the level of a region in need never
   falls, the level of a donor never rises, and the level of any other
   region stays as it was. *)
NeedyAtStart ==
    { r \in DOMAIN hourStart.regions :
        Max2(0, hourStart.regions[r].waterNeed - hourStart.regions[r].waterLevel)
            > kEpsilon }

DonorsAtStart ==
    { r \in DOMAIN hourStart.regions :
        /\ Max2(0, hourStart.regions[r].waterNeed - hourStart.regions[r].waterLevel)
               <= kEpsilon
        /\ safeSurplus(hourStart.regions[r]) > kEpsilon }

Givers(h) == { log[i].donor : i \in { j \in DOMAIN log : log[j].hour = h } }
Receivers(h) == { log[i].target : i \in { j \in DOMAIN log : log[j].hour = h } }

C17_RolesFixed ==
    /\ pc = "inner" /\ pops = 0 =>
          /\ needs = { [region |-> r,
                        amount |-> hourStart.regions[r].waterNeed
                                     - hourStart.regions[r].waterLevel] :
                       r \in NeedyAtStart }
          /\ DonorSet = DonorsAtStart
          /\ Len(donors) = Cardinality(DonorsAtStart)
    /\ InHour =>
          /\ DonorSet = DonorsAtStart
          /\ DonorSet \cap NeedyAtStart = {}
          /\ { n.region : n \in needs } \subseteq NeedyAtStart
          /\ Givers(hour) \subseteq DonorSet
          /\ Receivers(hour) \subseteq NeedyAtStart
          /\ Givers(hour) \cap Receivers(hour) = {}
          /\ \A r \in DOMAIN regions :
                /\ r \in NeedyAtStart =>
                      regions[r].waterLevel >= hourStart.regions[r].waterLevel
                /\ r \in DonorSet =>
                      regions[r].waterLevel <= hourStart.regions[r].waterLevel
                /\ r \notin NeedyAtStart \cup DonorSet =>
                      regions[r].waterLevel = hourStart.regions[r].waterLevel

(* An hour with a donor, a region in need and a region that is neither, which
   a canal from the donor reaches, has moved water. *)
C17_ThreeRolesAtWork ==
    /\ pc = "hourEnd"
    /\ HourLog(hour) # <<>>
    /\ \E r \in DOMAIN regions :
          /\ r \notin NeedyAtStart \cup DonorsAtStart
          /\ \E c \in DOMAIN canals :
                canals[c].destinationRegion = r /\ canals[c].sourceRegion \in DonorSet
    /\ \E r \in NeedyAtStart :
          regions[r].waterLevel > hourStart.regions[r].waterLevel
    /\ \E r \in DonorSet :
          regions[r].waterLevel < hourStart.regions[r].waterLevel

(* C18: when the run returns because an hour moved no water, every canal is
   closed with flow rate 0, so what the last productive hour set on the
   canals is gone; a canal is open at return only if the run ended at the
   loop test, by the solved predicate or the budget of hours, right after an
   hour that moved water. *)
ReturnedIdle == pc = "done" /\ attempts >= 1 /\ ~didTransfer

====
